---- MODULE Spec2Model ----
(***************************************************************************)
(* Model of the semantic-search utility: index_build.py builds the three   *)
(* artifacts (faiss.index, docs.json, meta.json) from ./data/*.txt,        *)
(* app.py and search.py load them and answer queries.                      *)
(*                                                                         *)
(* Strings are sequences of one-character strings.  Embedding vectors are  *)
(* integer vectors of one common norm (the float unit vectors scaled), so  *)
(* that inner products are exact integers.                                 *)
(***************************************************************************)
EXTENDS Integers, Sequences, FiniteSets, TLC

\* ------------------------------------------------------------------ bounds
\* Longest file content (in characters) that is enumerated.
MaxLen == 2
\* Longest query typed by a user that is enumerated.
MaxQueryLen == 1
\* Largest slider position that is enumerated (the slider itself goes to 10).
MaxTopK == 4
\* Longest content of the one short document of the preview corpora.
MaxPreviewLen == 4
\* Most raw results a web search yields.
MaxHits == 2

\* ------------------------------------------------------- program constants
CLI_TOP_K == 3
SLIDER_MIN == 1
SLIDER_MAX == 10
SNIPPET_N == 280
CLI_PREVIEW_N == 160

\* ----------------------------------------------------------------- strings
Chars == {" ", "a"}
Whitespace == {" "}

\* All strings over Chars of length at most n.
StringsUpTo(n) == UNION {[1..m -> Chars] : m \in 0..n}
Texts == StringsUpTo(MaxLen)

\* str.lstrip() / str.rstrip() / str.strip() with no argument.
RECURSIVE LStrip(_)
LStrip(s) ==
    IF s # <<>> /\ Head(s) \in Whitespace THEN LStrip(Tail(s)) ELSE s

RECURSIVE RStrip(_)
RStrip(s) ==
    IF s # <<>> /\ s[Len(s)] \in Whitespace
    THEN RStrip(SubSeq(s, 1, Len(s) - 1))
    ELSE s

Strip(s) == RStrip(LStrip(s))

\* Code points of the characters that occur in paths and texts.
CharOrd(c) ==
    CASE c = " " -> 32
      [] c = "." -> 46
      [] c = "/" -> 47
      [] c = "a" -> 97
      [] c = "b" -> 98
      [] c = "d" -> 100
      [] c = "m" -> 109
      [] c = "t" -> 116
      [] c = "x" -> 120

\* Python's str < str: lexicographic by code point, a proper prefix is smaller.
RECURSIVE StrLess(_, _)
StrLess(s, t) ==
    IF t = <<>> THEN FALSE
    ELSE IF s = <<>> THEN TRUE
    ELSE IF Head(s) = Head(t) THEN StrLess(Tail(s), Tail(t))
    ELSE CharOrd(Head(s)) < CharOrd(Head(t))

\* ------------------------------------------------------------------- paths
DATA_DIR == <<"d", "a", "t", "a">>
Sep == <<"/">>
TxtExt == <<".", "t", "x", "t">>

\* Directory entries of ./data that the model considers.
TxtNames == { <<"a">> \o TxtExt, <<"a", "b">> \o TxtExt, <<"b">> \o TxtExt }
OtherNames == { <<"a", ".", "m", "d">> }
FileNames == TxtNames \cup OtherNames

\* os.path.join(DATA_DIR, name)
PathJoin(dir, name) == dir \o Sep \o name

\* os.path.basename(p): what follows the last separator.
RECURSIVE Basename(_)
Basename(p) ==
    IF \E i \in 1..Len(p) : p[i] = "/"
    THEN Basename(Tail(p))
    ELSE p

EndsWith(s, suf) ==
    /\ Len(s) >= Len(suf)
    /\ SubSeq(s, Len(s) - Len(suf) + 1, Len(s)) = suf

\* glob.glob("data/*.txt"): the set of matching paths; the order in which
\* the directory listing returns them is not fixed.
GlobTxt(c) ==
    { PathJoin(DATA_DIR, n) :
        n \in { m \in FileNames : c[m].kind # "absent" /\ EndsWith(m, TxtExt) } }

\* All orders in which a set can be listed.
Listings(S) ==
    { l \in [1..Cardinality(S) -> S] : \A i, j \in 1..Cardinality(S) : i # j => l[i] # l[j] }

\* sorted(list of str): a stable sort by code-point order.
RECURSIVE InsertSorted(_, _)
InsertSorted(x, l) ==
    IF l = <<>> THEN <<x>>
    ELSE IF StrLess(Head(l), x) THEN <<Head(l)>> \o InsertSorted(x, Tail(l))
    ELSE <<x>> \o l

\* The listing taken as it comes.
PyUnsorted(l) == l

RECURSIVE InsertionSort(_)
InsertionSort(l) ==
    IF l = <<>> THEN <<>> ELSE InsertSorted(Head(l), InsertionSort(Tail(l)))

PySorted(l) == InsertionSort(l)

\* The file of the data directory that a path names.
FileAt(p) == CHOOSE n \in FileNames : PathJoin(DATA_DIR, n) = p

\* ----------------------------------------------------------------- embedder
\* SentenceTransformer.encode(..., normalize_embeddings=True): a fixed
\* function from text to a vector of one common norm.  The vectors below all
\* have squared norm 25 (unit vectors scaled by 5).
UnitVecs ==
    << <<5, 0>>, <<4, 3>>, <<3, 4>>, <<0, 5>>, <<-3, 4>>, <<-4, -3>> >>

RECURSIVE TextCode(_)
TextCode(t) ==
    IF t = <<>> THEN 0
    ELSE IF Len(t) = 1 THEN CharOrd(t[1])
    ELSE LET h == Len(t) \div 2
         IN TextCode(SubSeq(t, 1, h)) + TextCode(SubSeq(t, h + 1, Len(t)))

EncodeOne(t) == UnitVecs[(TextCode(t) % Len(UnitVecs)) + 1]

\* model.encode(batch): one row per text, in the order of the batch.
Encode(batch) == [i \in 1..Len(batch) |-> EncodeOne(batch[i])]

Dim == Len(UnitVecs[1])

RECURSIVE Dot(_, _)
Dot(v, w) == IF v = <<>> THEN 0 ELSE Head(v) * Head(w) + Dot(Tail(v), Tail(w))

\* -------------------------------------------------------------- faiss index
\* faiss.IndexFlatIP(d): dimension, row count and the rows stored flat.
IndexFlatIP(d) == [d |-> d, ntotal |-> 0, xb |-> <<>>]

RECURSIVE Flatten(_)
Flatten(rows) == IF rows = <<>> THEN <<>> ELSE Head(rows) \o Flatten(Tail(rows))

\* index.add(embeddings)
IndexAdd(ix, rows) ==
    [d |-> ix.d, ntotal |-> ix.ntotal + Len(rows), xb |-> ix.xb \o Flatten(rows)]

\* Row i (0-based) of an index.
IndexRow(ix, i) == SubSeq(ix.xb, i * ix.d + 1, (i + 1) * ix.d)

\* faiss.write_index / faiss.read_index: header plus the flat rows.
FaissWriteIndex(ix) ==
    [kind |-> "faiss", d |-> ix.d, ntotal |-> ix.ntotal, codes |-> ix.xb]
FaissReadIndex(f) == [d |-> f.d, ntotal |-> f.ntotal, xb |-> f.codes]

\* --------------------------------------------------------------------- json
\* A JSON text is a sequence of tokens; json.dump(..., indent=2) only adds
\* whitespace between tokens, which json.load skips.
Punct(c) == [t |-> "punct", v |-> c]
StrTok(s) == [t |-> "str", v |-> s]
SourceKey == <<"s", "o", "u", "r", "c", "e">>

\* Tokens of one value: a string (a document), or a dict {"source": <string>}.
StrTokens(x) == <<StrTok(x)>>
DictTokens(x) ==
    <<Punct("{"), StrTok(SourceKey), Punct(":"), StrTok(x.source), Punct("}")>>

\* The token groups of the items, separated by commas.
RECURSIVE JoinItems(_)
JoinItems(groups) ==
    IF groups = <<>> THEN <<>>
    ELSE IF Len(groups) = 1 THEN groups[1]
    ELSE Head(groups) \o <<Punct(",")>> \o JoinItems(Tail(groups))

JsonFile(toks) == [kind |-> "json", toks |-> toks]

\* json.dump(docs, f) and json.dump(meta, f)
JsonDumpDocs(l) ==
    JsonFile(<<Punct("[")>> \o JoinItems([i \in 1..Len(l) |-> StrTokens(l[i])])
                 \o <<Punct("]")>>)
JsonDumpMeta(l) ==
    JsonFile(<<Punct("[")>> \o JoinItems([i \in 1..Len(l) |-> DictTokens(l[i])])
                 \o <<Punct("]")>>)

\* json.load: the list a token sequence denotes.  Parses value by value.
IsPunct(tk, c) == tk.t = "punct" /\ tk.v = c

RECURSIVE ParseItems(_)
ParseItems(ts) ==
    IF ts = <<>> THEN <<>>
    ELSE IF IsPunct(Head(ts), ",") THEN ParseItems(Tail(ts))
    ELSE IF IsPunct(Head(ts), "{")
         THEN <<[source |-> ts[4].v]>> \o ParseItems(SubSeq(ts, 6, Len(ts)))
    ELSE <<Head(ts).v>> \o ParseItems(Tail(ts))

\* A parse that starts one token too late.
JsonLoadSkipFirst(f) == ParseItems(SubSeq(f.toks, 3, Len(f.toks) - 1))

JsonLoad(f) == ParseItems(SubSeq(f.toks, 2, Len(f.toks) - 1))

\* -------------------------------------------------------------------- files
\* A file is absent, unreadable as UTF-8 text, a text, or (in ./artifacts)
\* a faiss index, a JSON text, or what a failed write left behind.
Absent == [kind |-> "absent"]
Unreadable == [kind |-> "unreadable"]
Corrupt == [kind |-> "corrupt"]
TextFile(s) == [kind |-> "text", data |-> s]

\* -------------------------------------------------------------------- state
VARIABLES
    corpus,      \* ./data: file name -> content, Absent or Unreadable
    art,         \* ./artifacts: dir exists, and the three files
    bpc,         \* index_build.main: position / outcome of the latest run
    paths,       \* index_build.main: sorted glob result
    bi,          \* index_build.main: position of the read loop in paths
    docs,        \* index_build.main: docs
    meta,        \* index_build.main: meta
    index,       \* index_build.main: the faiss index in memory
    berr,        \* index_build.main: the exception that ended the run
    out,         \* index_build.main: lines printed
    bEncoded,    \* batches passed to model.encode by the latest build run
    app,         \* app.py: cached result of load_data()
    cli,         \* search.py: index and docs loaded by main()
    qEncoded,    \* the batch passed to model.encode by the latest query
    results,     \* what the latest query displayed
    sess,        \* app.py: the script run of each browser session
    apiKey,      \* brainyai.py: GROQ_API_KEY as read at import
    answer,      \* brainyai.py: st.session_state.answer
    web,         \* brainyai.py: st.session_state.web
    asked,       \* brainyai.py: the arguments of the latest run_query, if any
    calls,       \* brainyai.py: what the latest run_query called, in order
    raised       \* brainyai.py: the exception the latest run_query let out

buildVars == <<bpc, paths, bi, docs, meta, index, berr, out, bEncoded>>
sessVars == <<sess>>
chatVars == <<apiKey, answer, web, asked, calls, raised>>
queryVars == <<app, cli, qEncoded, results, sessVars, chatVars>>
vars == <<corpus, art, bpc, paths, bi, docs, meta, index, berr, out, bEncoded,
          app, cli, qEncoded, results, sess, apiKey, answer, web, asked, calls,
          raised>>

NoIndex == [d |-> 0, ntotal |-> 0, xb |-> <<>>]
NotLoaded == [st |-> "none"]
NoResults == [by |-> "none", k |-> 0, shown |-> <<>>, err |-> "none"]

\* The browser sessions served by the one streamlit process.
Callers == {"s1", "s2"}
\* A session whose script is not running.
Idle == [pc |-> "idle"]
\* st.session_state defaults: no answer, no web results.
NoAnswer == [pre |-> "", body |-> <<>>]

FileContents == {TextFile(s) : s \in Texts} \cup {Absent, Unreadable}
Corpora == [FileNames -> FileContents]

\* A fresh checkout: nothing built, nothing loaded, nothing asked.
Installed ==
    /\ art = [dir |-> FALSE, index |-> Absent, docs |-> Absent, meta |-> Absent]
    /\ bpc = "idle"
    /\ paths = <<>>
    /\ bi = 0
    /\ docs = <<>>
    /\ meta = <<>>
    /\ index = NoIndex
    /\ berr = "none"
    /\ out = <<>>
    /\ bEncoded = <<>>
    /\ app = NotLoaded
    /\ cli = NotLoaded
    /\ qEncoded = <<>>
    /\ results = NoResults
    /\ sess = [s \in Callers |-> Idle]
    /\ answer = NoAnswer
    /\ web = <<>>
    /\ asked = <<>>
    /\ calls = <<>>
    /\ raised = "none"

Init ==
    /\ corpus \in Corpora
    /\ \A n \in OtherNames : corpus[n] = TextFile(<<"a">>)
    /\ Installed
    /\ apiKey = TRUE

\* ------------------------------------------------------ index_build.main()
Found(n) == [msg |-> "Found documents", n |-> n]

\* Lines 13-22: makedirs, glob + sorted, the "Found" line, the no-files exit.
BuildStart ==
    /\ bpc \in {"idle", "done", "failed"}
    /\ \E listing \in Listings(GlobTxt(corpus)) :
         LET ps == PySorted(listing) IN
         /\ paths' = ps
         /\ out' = <<Found(Len(ps))>>
         /\ IF ps = <<>>
            THEN bpc' = "failed" /\ berr' = "SystemExit: No .txt files found"
            ELSE bpc' = "read" /\ berr' = "none"
    /\ art' = [art EXCEPT !.dir = TRUE]
    /\ bi' = 1
    /\ docs' = <<>>
    /\ meta' = <<>>
    /\ index' = NoIndex
    /\ bEncoded' = <<>>
    /\ UNCHANGED <<corpus, queryVars>>

\* The read loop with meta.append outside the "if text" test.
BuildReadMetaAlways ==
    /\ bpc = "read"
    /\ bi <= Len(paths)
    /\ LET p == paths[bi]
           content == corpus[FileAt(p)]
       IN IF content.kind = "unreadable"
          THEN /\ bpc' = "failed"
               /\ berr' = "UnicodeDecodeError"
               /\ UNCHANGED <<bi, docs, meta>>
          ELSE LET text == Strip(content.data) IN
               /\ bi' = bi + 1
               /\ meta' = Append(meta, [source |-> Basename(p)])
               /\ docs' = IF text # <<>> THEN Append(docs, text) ELSE docs
               /\ UNCHANGED <<bpc, berr>>
    /\ UNCHANGED <<corpus, art, paths, index, out, bEncoded, queryVars>>

\* Lines 24-29: one iteration of the read loop.
BuildRead ==
    /\ bpc = "read"
    /\ bi <= Len(paths)
    /\ LET p == paths[bi]
           content == corpus[FileAt(p)]
       IN IF content.kind = "unreadable"
          THEN /\ bpc' = "failed"
               /\ berr' = "UnicodeDecodeError"
               /\ UNCHANGED <<bi, docs, meta>>
          ELSE LET text == Strip(content.data) IN
               /\ bi' = bi + 1
               /\ IF text # <<>>
                  THEN /\ docs' = Append(docs, text)
                       /\ meta' = Append(meta, [source |-> Basename(p)])
                  ELSE UNCHANGED <<docs, meta>>
               /\ UNCHANGED <<bpc, berr>>
    /\ UNCHANGED <<corpus, art, paths, index, out, bEncoded, queryVars>>

\* Lines 34-42 without the empty-documents exit of lines 31-32.
BuildEmbedNoEmptyCheck ==
    /\ bpc = "read"
    /\ bi > Len(paths)
    /\ bEncoded' = Append(bEncoded, docs)
    /\ \/ /\ bpc' = "write_index"
          /\ index' = IndexAdd(IndexFlatIP(Dim), Encode(docs))
          /\ UNCHANGED berr
       \/ /\ bpc' = "failed"
          /\ berr' = "EncodeError"
          /\ UNCHANGED index
    /\ UNCHANGED <<corpus, art, paths, bi, docs, meta, out, queryVars>>

\* Lines 31-42: the empty-documents exit, model.encode on the whole batch
\* (which may raise), and the index built from the embeddings.
BuildEmbed ==
    /\ bpc = "read"
    /\ bi > Len(paths)
    /\ IF docs = <<>>
       THEN /\ bpc' = "failed"
            /\ berr' = "SystemExit: Documents are empty"
            /\ UNCHANGED <<index, bEncoded>>
       ELSE /\ bEncoded' = Append(bEncoded, docs)
            /\ \/ /\ bpc' = "write_index"
                  /\ index' = IndexAdd(IndexFlatIP(Dim), Encode(docs))
                  /\ UNCHANGED berr
               \/ /\ bpc' = "failed"
                  /\ berr' = "EncodeError"
                  /\ UNCHANGED index
    /\ UNCHANGED <<corpus, art, paths, bi, docs, meta, out, queryVars>>

\* A write that raises leaves the file as it was (the open failed) or
\* truncated / partly written (the open succeeded).
FailedWrite(old) == {old, Corrupt}

\* Line 44: faiss.write_index.
BuildWriteIndex ==
    /\ bpc = "write_index"
    /\ \/ /\ art' = [art EXCEPT !.index = FaissWriteIndex(index)]
          /\ bpc' = "write_docs"
          /\ UNCHANGED berr
       \/ /\ \E f \in FailedWrite(art.index) : art' = [art EXCEPT !.index = f]
          /\ bpc' = "failed"
          /\ berr' = "WriteError"
    /\ UNCHANGED <<corpus, paths, bi, docs, meta, index, out, bEncoded, queryVars>>

\* Lines 46-47: docs.json.
BuildWriteDocs ==
    /\ bpc = "write_docs"
    /\ \/ /\ art' = [art EXCEPT !.docs = JsonDumpDocs(docs)]
          /\ bpc' = "write_meta"
          /\ UNCHANGED berr
       \/ /\ \E f \in FailedWrite(art.docs) : art' = [art EXCEPT !.docs = f]
          /\ bpc' = "failed"
          /\ berr' = "WriteError"
    /\ UNCHANGED <<corpus, paths, bi, docs, meta, index, out, bEncoded, queryVars>>

Built == [msg |-> "Index built successfully", n |-> 0]
Saved == [msg |-> "Files saved in /artifacts", n |-> 0]

\* Lines 49-53: meta.json and the two closing lines.
BuildWriteMeta ==
    /\ bpc = "write_meta"
    /\ \/ /\ art' = [art EXCEPT !.meta = JsonDumpMeta(meta)]
          /\ bpc' = "done"
          /\ out' = out \o <<Built, Saved>>
          /\ UNCHANGED berr
       \/ /\ \E f \in FailedWrite(art.meta) : art' = [art EXCEPT !.meta = f]
          /\ bpc' = "failed"
          /\ berr' = "WriteError"
          /\ UNCHANGED out
    /\ UNCHANGED <<corpus, paths, bi, docs, meta, index, bEncoded, queryVars>>

Build ==
    \/ BuildStart
    \/ BuildRead
    \/ BuildEmbed
    \/ BuildWriteIndex
    \/ BuildWriteDocs
    \/ BuildWriteMeta

\* ------------------------------------------------------------- faiss search
Min(a, b) == IF a < b THEN a ELSE b

\* Score of the padding entries (-FLT_MAX in faiss): below every real score.
PadScore == 0 - (Dot(UnitVecs[1], UnitVecs[1]) + 1)
PadId == 0 - 1

\* Inner products of the query with the rows (0-based).
Scores(ix, q) == [i \in 0..(ix.ntotal - 1) |-> Dot(IndexRow(ix, i), q)]

\* The orders in which the min(k, ntotal) best rows can be returned: by
\* descending score, every row left out scoring no more than a row returned.
\* faiss does not specify the order among rows of equal score.
TopOrders(ix, q, k) ==
    LET n == Min(k, ix.ntotal)
        rows == 0..(ix.ntotal - 1)
        sc == Scores(ix, q)
    IN { s \in [1..n -> rows] :
           /\ \A i, j \in 1..n : i < j => s[i] # s[j] /\ sc[s[i]] >= sc[s[j]]
           /\ \A r \in rows : (\A i \in 1..n : s[i] # r) =>
                 \A i \in 1..n : sc[r] <= sc[s[i]] }

\* What index.search returns for one query when it returns the rows in the
\* order s: exactly k (score, id) pairs, padded with (PadScore, -1).
Padded(ix, q, k, s) ==
    [scores |-> [i \in 1..k |-> IF i <= Len(s) THEN Scores(ix, q)[s[i]] ELSE PadScore],
     ids    |-> [i \in 1..k |-> IF i <= Len(s) THEN s[i] ELSE PadId]]

\* index.search(q_emb, k): the possible results.
FaissSearch(ix, q, k) == { Padded(ix, q, k, s) : s \in TopOrders(ix, q, k) }

\* ------------------------------------------------------------------ display
\* Python list indexing l[i]: negative i counts from the end.
PyInRange(l, i) == 0 - Len(l) <= i /\ i < Len(l)
PyGet(l, i) == IF i >= 0 THEN l[i + 1] ELSE l[Len(l) + i + 1]

\* text.split(): the maximal runs of non-whitespace characters.
RECURSIVE SplitWords(_)
SplitWords(s) ==
    LET t == LStrip(s) IN
    IF t = <<>> THEN <<>>
    ELSE LET stops == { i \in 1..Len(t) : t[i] \in Whitespace }
             e == IF stops = {} THEN Len(t)
                  ELSE (CHOOSE i \in stops : \A j \in stops : i <= j) - 1
         IN <<SubSeq(t, 1, e)>> \o SplitWords(SubSeq(t, e + 1, Len(t)))

RECURSIVE JoinSpace(_)
JoinSpace(ws) ==
    IF ws = <<>> THEN <<>>
    ELSE IF Len(ws) = 1 THEN ws[1]
    ELSE Head(ws) \o <<" ">> \o JoinSpace(Tail(ws))

\* The single character U+2026 (horizontal ellipsis).
Ellipsis == "U+2026"

\* app.snippet(text, n)
Snippet(text, n) ==
    LET t == JoinSpace(SplitWords(Strip(text)))
    IN IF Len(t) <= n THEN t ELSE SubSeq(t, 1, n) \o <<Ellipsis>>

\* search.py line 32: the first 160 characters, "..." when longer.
CliPreview(text, n) ==
    SubSeq(text, 1, Min(n, Len(text))) \o (IF Len(text) > n THEN <<".", ".", ".">> ELSE <<>>)

\* ------------------------------------------------------------------ loading
LoadError(e) == [st |-> "error", err |-> e]

\* faiss.read_index(path) / json.load(open(path)): the error raised, if any.
ReadIndexError(f) ==
    IF f.kind = "absent" THEN "RuntimeError: could not open faiss.index"
    ELSE IF f.kind # "faiss" THEN "RuntimeError: read error"
    ELSE "none"

JsonLoadError(f) ==
    IF f.kind = "absent" THEN "FileNotFoundError"
    ELSE IF f.kind # "json" THEN "JSONDecodeError"
    ELSE "none"

\* app.load_data(): index, docs and meta, or the first error raised.
LoadData(a) ==
    IF ReadIndexError(a.index) # "none" THEN LoadError(ReadIndexError(a.index))
    ELSE IF JsonLoadError(a.docs) # "none" THEN LoadError(JsonLoadError(a.docs))
    ELSE IF JsonLoadError(a.meta) # "none" THEN LoadError(JsonLoadError(a.meta))
    ELSE [st |-> "ok", index |-> FaissReadIndex(a.index),
          docs |-> JsonLoad(a.docs), meta |-> JsonLoad(a.meta)]

\* search.main() lines 14-17: index and docs only.
CliLoadData(a) ==
    IF ReadIndexError(a.index) # "none" THEN LoadError(ReadIndexError(a.index))
    ELSE IF JsonLoadError(a.docs) # "none" THEN LoadError(JsonLoadError(a.docs))
    ELSE [st |-> "ok", index |-> FaissReadIndex(a.index), docs |-> JsonLoad(a.docs)]

\* --------------------------------------------------------------- app.py run
\* The results section: one entry per (score, idx) pair, in order, until an
\* index raises IndexError.  meta[idx] is read first (the heading), then
\* docs[idx] (the snippet).
AppEntry(st, r, rank) ==
    LET idx == r.ids[rank] IN
    [rank |-> rank, row |-> idx, score |-> r.scores[rank],
     source |-> PyGet(st.meta, idx).source,
     text |-> IF PyInRange(st.docs, idx)
              THEN Snippet(PyGet(st.docs, idx), SNIPPET_N) ELSE <<>>,
     whole |-> PyInRange(st.docs, idx)]

RECURSIVE AppRender(_, _, _)
AppRender(st, r, rank) ==
    IF rank > Len(r.ids) THEN [shown |-> <<>>, err |-> "none"]
    ELSE IF ~PyInRange(st.meta, r.ids[rank]) THEN [shown |-> <<>>, err |-> "IndexError"]
    ELSE IF ~PyInRange(st.docs, r.ids[rank])
         THEN [shown |-> <<AppEntry(st, r, rank)>>, err |-> "IndexError"]
    ELSE LET rest == AppRender(st, r, rank + 1)
         IN [shown |-> <<AppEntry(st, r, rank)>> \o rest.shown, err |-> rest.err]

\* One run of the app.py script with the widgets holding (query, top_k):
\* load_data() (cached once it has succeeded), then the search block.
AppRun(query, top_k) ==
    LET st == IF app.st = "ok" THEN app ELSE LoadData(art) IN
    /\ app' = st
    /\ IF st.st # "ok"
       THEN /\ results' = [by |-> "app", k |-> 0, shown |-> <<>>, err |-> st.err]
            /\ UNCHANGED qEncoded
       ELSE IF query = <<>>
       THEN /\ results' = NoResults
            /\ UNCHANGED qEncoded
       ELSE /\ qEncoded' = <<query>>
            /\ \E r \in FaissSearch(st.index, Encode(<<query>>)[1], top_k) :
                 results' = [by |-> "app", k |-> top_k,
                             shown |-> AppRender(st, r, 1).shown,
                             err |-> AppRender(st, r, 1).err]
    /\ UNCHANGED <<corpus, art, buildVars, cli, sessVars, chatVars>>

SLIDER_DEFAULT == 5

\* The first run of a session: the text box is empty, the slider at 5.
AppOpen ==
    /\ app.st # "ok"
    /\ AppRun(<<>>, SLIDER_DEFAULT)

\* The streamlit server restarts: the resource cache is gone.
AppRestart ==
    /\ app.st = "ok"
    /\ app' = NotLoaded
    /\ results' = NoResults
    /\ qEncoded' = <<>>
    /\ UNCHANGED <<corpus, art, buildVars, cli, sessVars, chatVars>>

\* A rerun after the user typed a query or moved the slider.
QueryInputs == StringsUpTo(MaxQueryLen)
AppQuery ==
    \E query \in QueryInputs, top_k \in SLIDER_MIN..Min(SLIDER_MAX, MaxTopK) :
        /\ query # <<>>
        /\ AppRun(query, top_k)

\* ------------------------------------------------------------ search.main()
\* Lines 11-19: start of the CLI: load index and docs.
CliStart ==
    /\ cli.st # "ok"
    /\ cli' = CliLoadData(art)
    /\ results' = [by |-> "cli", k |-> 0, shown |-> <<>>,
                    err |-> IF cli'.st = "ok" THEN "none" ELSE cli'.err]
    /\ UNCHANGED <<corpus, art, buildVars, app, qEncoded, sessVars, chatVars>>

\* str.lower() on the characters that occur.
LowerChar(c) ==
    CASE c = "E" -> "e"
      [] c = "Q" -> "q"
      [] OTHER -> c
Lower(s) == [i \in 1..Len(s) |-> LowerChar(s[i])]

ExitWords == { <<"e", "x", "i", "t">>, <<"q", "u", "i", "t">> }
CliInputs == QueryInputs \cup { <<"E", "x", "i", "t">>, <<"q", "u", "i", "t", " ">> }

CliEntry(st, r, rank) ==
    [rank |-> rank, row |-> r.ids[rank],
     text |-> CliPreview(PyGet(st.docs, r.ids[rank]), CLI_PREVIEW_N)]

RECURSIVE CliRender(_, _, _)
CliRender(st, r, rank) ==
    IF rank > Len(r.ids) THEN [shown |-> <<>>, err |-> "none"]
    ELSE IF ~PyInRange(st.docs, r.ids[rank]) THEN [shown |-> <<>>, err |-> "IndexError"]
    ELSE LET rest == CliRender(st, r, rank + 1)
         IN [shown |-> <<CliEntry(st, r, rank)>> \o rest.shown, err |-> rest.err]

\* Lines 21-34: one iteration of the prompt loop.
CliQuery ==
    /\ cli.st = "ok"
    /\ \E input \in CliInputs :
         LET query == Strip(input) IN
         IF Lower(query) \in ExitWords
         THEN /\ cli' = NotLoaded
              /\ results' = NoResults
              /\ qEncoded' = <<>>
         ELSE /\ qEncoded' = <<query>>
              /\ \E r \in FaissSearch(cli.index, Encode(<<query>>)[1], CLI_TOP_K) :
                   /\ results' = [by |-> "cli", k |-> CLI_TOP_K,
                                   shown |-> CliRender(cli, r, 1).shown,
                                   err |-> CliRender(cli, r, 1).err]
                   /\ cli' = IF results'.err = "none" THEN cli ELSE LoadError(results'.err)
    /\ UNCHANGED <<corpus, art, buildVars, app, sessVars, chatVars>>

\* A text of n copies of one character.
Repeat(c, n) == [i \in 1..n |-> c]

\* ------------------------------------------------- app.py, several sessions
\* Streamlit runs the script of each browser session in a thread of its own;
\* load_data() hands every one of them the same cached objects.  A run in
\* session s, once the store is cached, goes through lines 37, 38 and 41-44.

\* The slider of a session is left at its default or pulled to its minimum.
SessTopK == {SLIDER_MIN, SLIDER_DEFAULT}

\* Lines 30-37: the widgets hold (query, top_k); q_emb = model.encode([query]).
SessEncode(s) ==
    /\ app.st = "ok"
    /\ sess[s].pc \in {"idle", "done"}
    /\ \E query \in QueryInputs, top_k \in SessTopK :
         /\ query # <<>>
         /\ sess' = [sess EXCEPT ![s] = [pc |-> "encoded", query |-> query,
                                         k |-> top_k,
                                         q_emb |-> Encode(<<query>>)[1]]]
         /\ qEncoded' = <<query>>
    /\ UNCHANGED <<corpus, art, buildVars, app, cli, results, chatVars>>

\* Line 38 with the query vector kept in one place for all sessions: the
\* search uses the vector of whichever run encoded last.
SessSearchLatest(s) ==
    /\ sess[s].pc = "encoded"
    /\ \E r \in FaissSearch(app.index, Encode(qEncoded)[1], sess[s].k) :
         sess' = [sess EXCEPT ![s] = [pc |-> "searched", query |-> sess[s].query,
                                         k |-> sess[s].k, r |-> r]]
    /\ UNCHANGED <<corpus, art, buildVars, app, cli, qEncoded, results, chatVars>>

\* Line 38: scores, ids = index.search(q_emb, top_k)
SessSearch(s) ==
    /\ sess[s].pc = "encoded"
    /\ \E r \in FaissSearch(app.index, sess[s].q_emb, sess[s].k) :
         sess' = [sess EXCEPT ![s] = [pc |-> "searched", query |-> sess[s].query,
                                         k |-> sess[s].k, r |-> r]]
    /\ UNCHANGED <<corpus, art, buildVars, app, cli, qEncoded, results, chatVars>>

\* Lines 41-44: the loop that writes the results of the run.
SessRender(s) ==
    /\ sess[s].pc = "searched"
    /\ sess' = [sess EXCEPT ![s] = [pc |-> "done", query |-> sess[s].query,
                                    k |-> sess[s].k,
                                    shown |-> AppRender(app, sess[s].r, 1).shown,
                                    err |-> AppRender(app, sess[s].r, 1).err]]
    /\ UNCHANGED <<corpus, art, buildVars, app, cli, qEncoded, results, chatVars>>

\* ------------------------------------------- brainyai.py, brainyai_backup.py
CLIP_N == 220
N_WEB_OPTIONS == {3, 5, 6, 8}
MODEL_OPTIONS == {"llama-3.3-70b-versatile"}

\* A value that may be None; (x or "") is OrEmpty(x).
None == [v |-> "none"]
Some(x) == [v |-> "str", s |-> x]
OrEmpty(x) == IF x.v = "none" THEN <<>> ELSE x.s

\* clip(s, n) of brainyai.py (strips first) and of brainyai_backup.py.
Clip(s, n) ==
    LET t == Strip(s)
    IN IF Len(t) <= n THEN t ELSE SubSeq(t, 1, n - 1) \o <<Ellipsis>>
BackupClip(s, n) ==
    IF Len(s) <= n THEN s ELSE SubSeq(s, 1, n - 1) \o <<Ellipsis>>

\* sub in s
Contains(s, sub) ==
    \E i \in 1..(Len(s) - Len(sub) + 1) : SubSeq(s, i, i + Len(sub) - 1) = sub

\* What DDGS().text(...) yields: raw results, then possibly an exception.
RawHits ==
    { [title |-> Some(<<"t">>), href |-> Some(<<" ", "u">>), body |-> None],
      [title |-> None, href |-> Some(<<" ">>), body |-> Some(<<"b">>)] }
HitLists == UNION { [1..m -> RawHits] : m \in 0..MaxHits }
DdgOutcomes ==
    { [hits |-> h, fails |-> FALSE] : h \in HitLists }
        \cup { [hits |-> h, fails |-> TRUE] : h \in { l \in HitLists : Len(l) <= 1 } }

Cleaned(r) ==
    [title |-> Strip(OrEmpty(r.title)), url |-> Strip(OrEmpty(r.href)),
     snippet |-> Strip(OrEmpty(r.body))]
HasUrl(r) == r.url # <<>>

\* ddg_search(query, max_results) when the service behaves as d: what it
\* returns, and whether DDGS was used and failed.
DdgSearch(query, max_results, d) ==
    IF Strip(query) = <<>> THEN [ret |-> <<>>, out |-> "not called"]
    ELSE IF d.fails THEN [ret |-> <<>>, out |-> "failed"]
    ELSE [ret |-> SelectSeq([i \in 1..Len(d.hits) |-> Cleaned(d.hits[i])], HasUrl),
          out |-> "ok"]

\* Exceptions: class, HTTP status of the response (0 without one), str(e).
Exc(cls, code, msg) == [cls |-> cls, code |-> code, msg |-> msg]
NoExc == Exc("none", 0, <<>>)
Bases(cls) ==
    CASE cls = "HTTPError" -> {"HTTPError", "RequestException", "OSError", "Exception"}
      [] cls = "Timeout" -> {"Timeout", "RequestException", "OSError", "Exception"}
      [] cls = "JSONDecodeError" -> {"JSONDecodeError", "ValueError", "Exception"}
      [] cls = "KeyError" -> {"KeyError", "LookupError", "Exception"}
      [] cls = "RuntimeError" -> {"RuntimeError", "Exception"}
      [] OTHER -> {cls}
IsInstance(e, cls) == cls \in Bases(e.cls)

KeyName == <<"G", "R", "O", "Q", "_", "A", "P", "I", "_", "K", "E", "Y">>
KeyNotSet == <<"G", "R", "O", "Q", "_", "A", "P", "I", "_", "K", "E", "Y", " ", "i", "s", " ", "n", "o", "t", " ", "s", "e", "t", ".">>

\* How the Groq endpoint answers one POST.
GroqOutcomes ==
    { [kind |-> "timeout", code |-> 0, msg |-> <<"R", "e", "a", "d", " ", "t", "i", "m", "e", "d", " ", "o", "u", "t", ".">>, content |-> None],
      [kind |-> "status", code |-> 401, msg |-> <<"4", "0", "1", " ", "C", "l", "i", "e", "n", "t", " ", "E", "r", "r", "o", "r">>, content |-> None],
      [kind |-> "status", code |-> 500, msg |-> <<"5", "0", "0", " ", "S", "e", "r", "v", "e", "r", " ", "E", "r", "r", "o", "r">>, content |-> None],
      [kind |-> "status", code |-> 500, msg |-> Repeat("e", CLIP_N + 1), content |-> None],
      [kind |-> "not json", code |-> 200, msg |-> <<"E", "x", "p", "e", "c", "t", "i", "n", "g", " ", "v", "a", "l", "u", "e">>, content |-> None],
      [kind |-> "no choices", code |-> 200, msg |-> <<"'", "c", "h", "o", "i", "c", "e", "s", "'">>, content |-> None],
      [kind |-> "json", code |-> 200, msg |-> <<>>, content |-> None],
      [kind |-> "json", code |-> 200, msg |-> <<>>, content |-> Some(<<>>)],
      [kind |-> "json", code |-> 200, msg |-> <<>>, content |-> Some(<<" ", "o", "k">>)] }

Returned(text) == [ok |-> TRUE, text |-> text, exc |-> NoExc]
Raised(e) == [ok |-> FALSE, text |-> <<>>, exc |-> e]

\* groq_chat(user_query, model, web_results) when the endpoint behaves as g.
GroqChat(user_query, model, web_results, g) ==
    IF ~apiKey THEN Raised(Exc("RuntimeError", 0, KeyNotSet))
    ELSE IF g.kind = "timeout" THEN Raised(Exc("Timeout", 0, g.msg))
    ELSE IF g.code >= 400 THEN Raised(Exc("HTTPError", g.code, g.msg))
    ELSE IF g.kind = "not json" THEN Raised(Exc("JSONDecodeError", 0, g.msg))
    ELSE IF g.kind = "no choices" THEN Raised(Exc("KeyError", 0, g.msg))
    ELSE Returned(Strip(OrEmpty(g.content)))

\* st.session_state.answer: a fixed text followed by a computed one.
Answer(pre, body) == [pre |-> pre, body |-> body]

\* One call made by run_query, as it went.
Call(fn, query, n, sources, how) ==
    [fn |-> fn, query |-> query, n |-> n, sources |-> sources, out |-> how]

\* run_query lines 126-127.
WebStepAlways(query, use_web, n_web, d) ==
    LET r == DdgSearch(query, n_web, d)
    IN [ret |-> r.ret, calls |-> <<Call("ddg_search", query, n_web, <<>>, r.out)>>]

WebStep(query, use_web, n_web, d) ==
    IF use_web
    THEN LET r == DdgSearch(query, n_web, d)
         IN [ret |-> r.ret, calls |-> <<Call("ddg_search", query, n_web, <<>>, r.out)>>]
    ELSE [ret |-> <<>>, calls |-> <<>>]

\* The except clauses of run_query: the answer they set, or the exception
\* they let through.
Handled(a) == [caught |-> TRUE, answer |-> a]
Unhandled == [caught |-> FALSE, answer |-> NoAnswer]

HandleHttpOnly(e) ==
    IF IsInstance(e, "HTTPError")
    THEN Handled(Answer("Request failed: ", Clip(e.msg, CLIP_N)))
    ELSE Unhandled

\* brainyai.py lines 133-143
Handle(e) ==
    IF IsInstance(e, "HTTPError")
    THEN IF e.code = 401
         THEN Handled(Answer("Unauthorized (401). Your GROQ_API_KEY is missing/invalid.\nFix: set GROQ_API_KEY correctly and restart.", <<>>))
         ELSE Handled(Answer("Request failed: ", Clip(e.msg, CLIP_N)))
    ELSE IF IsInstance(e, "Exception")
    THEN Handled(Answer("Error: ", Clip(e.msg, CLIP_N)))
    ELSE Unhandled

\* brainyai_backup.py lines 139-151
BackupHandle(e) ==
    IF IsInstance(e, "Exception")
    THEN IF Contains(e.msg, KeyName)
         THEN Handled(Answer("Setup needed: GROQ_API_KEY is missing.\n\nAdd it to your environment and refresh.", <<>>))
         ELSE Handled(Answer("Temporary issue while generating the answer. Please try again.\n\nDetails: ", BackupClip(e.msg, CLIP_N)))
    ELSE Unhandled

TypeFirst == Answer("Type a question first.", <<>>)

\* The except clauses of run_query in the given script.
HandleIn(script, e) ==
    IF script = "brainyai.py" THEN Handle(e) ELSE BackupHandle(e)

\* run_query(query, use_web, n_web, model) of the given script; the web
\* search (when it is called) behaves as some d and the Groq endpoint (when
\* it is called) as some g.
RunQueryWith(script, query, use_web, n_web, model) ==
    LET q == Strip(query) IN
    /\ IF q = <<>>
       THEN /\ answer' = TypeFirst
            /\ web' = <<>>
            /\ calls' = <<>>
            /\ raised' = "none"
       ELSE \E d \in (IF use_web THEN DdgOutcomes ELSE {[hits |-> <<>>, fails |-> FALSE]}),
               g \in GroqOutcomes :
            LET w == WebStep(q, use_web, n_web, d)
                sources == IF use_web THEN w.ret ELSE <<>>
                res == GroqChat(q, model, sources, g)
                how == IF res.ok THEN "ok" ELSE res.exc.cls
                h == IF res.ok THEN Handled(Answer("", res.text)) ELSE HandleIn(script, res.exc)
            IN /\ web' = w.ret
               /\ calls' = w.calls \o <<Call("groq_chat", q, 0, sources, how)>>
               /\ answer' = IF h.caught THEN h.answer ELSE answer
               /\ raised' = IF h.caught THEN "none" ELSE res.exc.cls
    /\ UNCHANGED <<corpus, art, buildVars, app, cli, qEncoded, results, sessVars, apiKey>>

\* What the user may have typed into the question box.
ChatQueries == { <<>>, <<" ">>, <<" ", "a">> }

\* The widget values handed to run_query.
Args(query, use_web, n_web, model) ==
    [query |-> query, use_web |-> use_web, n_web |-> n_web, model |-> model]

\* The "Search" button of brainyai.py (lines 345-350) ...
RunQuery ==
    \E query \in ChatQueries, use_web \in BOOLEAN, n_web \in N_WEB_OPTIONS,
       model \in MODEL_OPTIONS :
        /\ asked' = <<Args(query, use_web, n_web, model)>>
        /\ RunQueryWith("brainyai.py", query, use_web, n_web, model)

\* ... and of brainyai_backup.py (lines 348-351).
BackupRunQuery ==
    \E query \in ChatQueries, use_web \in BOOLEAN, n_web \in N_WEB_OPTIONS,
       model \in MODEL_OPTIONS :
        /\ asked' = <<Args(query, use_web, n_web, model)>>
        /\ RunQueryWith("brainyai_backup.py", query, use_web, n_web, model)

\* ------------------------------------------------------------- environment
\* Files that are readable, stripped and not empty.
CleanContents ==
    {Absent} \cup { TextFile(s) : s \in { t \in Texts : t # <<>> /\ Strip(t) = t } }

\* Someone removes a .txt file of ./data between two runs of the build.
RemoveFile ==
    /\ bpc = "done"
    /\ \E n \in TxtNames :
         /\ corpus[n].kind # "absent"
         /\ corpus' = [corpus EXCEPT ![n] = Absent]
    /\ UNCHANGED <<art, buildVars, queryVars>>

\* ------------------------------------------------------------ specifications
Next == Build

\* The build alone, over every corpus.
Spec == Init /\ [][Next]_vars

InitClean == Init /\ \A n \in TxtNames : corpus[n] \in CleanContents

NextLoad == Build \/ AppOpen \/ AppRestart \/ CliStart

\* Builds and loads, in any interleaving.
SpecLoad == InitClean /\ [][NextLoad]_vars

\* No run of the build is in progress.
BuildIdle == bpc \in {"idle", "done", "failed"}

\* A session starts while no build runs and no other session is loaded.
QuietAppOpen == BuildIdle /\ cli.st # "ok" /\ AppOpen
QuietCliStart == BuildIdle /\ app.st # "ok" /\ CliStart

NextEdit == Build \/ RemoveFile \/ QuietAppOpen \/ QuietCliStart

\* Builds and loads over a corpus that loses files between builds; loads
\* are serialized against the builds.
SpecEdit == InitClean /\ [][NextEdit]_vars

\* A query session holds a loaded store.
Serving == app.st = "ok" \/ cli.st = "ok"

\* No build runs while a session holds a loaded store.
SerializedBuild == ~Serving /\ Build

\* A session starts on the artifacts of a finished build, one at a time.
BuiltAppOpen == bpc = "done" /\ cli.st # "ok" /\ AppOpen
BuiltCliStart == bpc = "done" /\ app.st # "ok" /\ CliStart

\* Queries typed into a page whose load_data() has succeeded.
CachedAppQuery == app.st = "ok" /\ AppQuery

NextQuery ==
    \/ SerializedBuild
    \/ BuiltAppOpen
    \/ AppRestart
    \/ CachedAppQuery
    \/ BuiltCliStart
    \/ CliQuery

\* Query sessions over the artifacts of successful builds: rebuilds are
\* serialized against the sessions, which run one at a time.
SpecQuery == InitClean /\ [][NextQuery]_vars

\* The sessions of one streamlit process, their runs interleaved line by line.
NextShared ==
    \/ SerializedBuild
    \/ BuiltAppOpen
    \/ \E s \in Callers : SessEncode(s)
    \/ \E s \in Callers : SessSearch(s)
    \/ \E s \in Callers : SessRender(s)

\* A corpus of at most two documents, data/a.txt and data/b.txt.
InitShared == InitClean /\ corpus[<<"a", "b">> \o TxtExt] = Absent

SpecShared == InitShared /\ [][NextShared]_vars

\* Documents around the two preview lengths, and short ones with runs of
\* whitespace inside.
PreviewTexts ==
    StringsUpTo(MaxPreviewLen)
        \cup { Repeat("a", n) : n \in { CLI_PREVIEW_N, CLI_PREVIEW_N + 1,
                                       SNIPPET_N, SNIPPET_N + 1 } }
        \cup { <<"a", " ", " ">> \o Repeat("a", SNIPPET_N - 2),
               <<"a", " ", " ">> \o Repeat("a", SNIPPET_N - 1) }

\* A corpus of one document, data/a.txt.
InitPreview ==
    /\ \E t \in PreviewTexts :
         corpus = [n \in FileNames |->
                     IF n = <<"a">> \o TxtExt THEN TextFile(t)
                     ELSE IF n \in OtherNames THEN TextFile(<<"a">>)
                     ELSE Absent]
    /\ Installed
    /\ apiKey = TRUE

\* Query sessions over one document of any of the preview texts.
SpecPreview == InitPreview /\ [][NextQuery]_vars

\* The chat apps: no corpus, the key set or not.
InitChat ==
    /\ corpus = [n \in FileNames |-> Absent]
    /\ Installed
    /\ apiKey \in BOOLEAN

NextChat == RunQuery \/ BackupRunQuery

SpecChat == InitChat /\ [][NextChat]_vars

\* ================================================================== claims
\* The .txt files of the corpus that are readable and not empty once stripped.
NonEmptyFiles ==
    { n \in TxtNames : corpus[n].kind = "text" /\ Strip(corpus[n].data) # <<>> }
\* The .txt files that are readable and empty once stripped.
EmptyFiles ==
    { n \in TxtNames : corpus[n].kind = "text" /\ Strip(corpus[n].data) = <<>> }
ListedFiles == { n \in TxtNames : corpus[n].kind # "absent" }

\* C1: after a successful build the three artifacts have the same number of
\* rows; row i of meta.json names a file whose stripped text is row i of
\* docs.json and whose embedding is row i of the index; every non-empty file
\* has exactly one row and a file that is empty once stripped has none.
C1_RowsAligned ==
    bpc = "done" =>
        /\ art.index.kind = "faiss" /\ art.docs.kind = "json" /\ art.meta.kind = "json"
        /\ LET X == FaissReadIndex(art.index)
               D == JsonLoad(art.docs)
               M == JsonLoad(art.meta)
           IN /\ X.ntotal = Len(D)
              /\ Len(D) = Len(M)
              /\ Len(X.xb) = X.ntotal * X.d
              /\ \A i \in 1..Len(M) :
                    /\ M[i].source \in NonEmptyFiles
                    /\ D[i] = Strip(corpus[M[i].source].data)
                    /\ IndexRow(X, i - 1) = EncodeOne(D[i])
              /\ \A i, j \in 1..Len(M) : i # j => M[i].source # M[j].source
              /\ Len(M) = Cardinality(NonEmptyFiles)

\* C1 witness: a finished build of three files, the second in order empty.
C1_Witness ==
    /\ bpc = "done"
    /\ Len(paths) = 3
    /\ Strip(corpus[FileAt(paths[2])].data) = <<>>
    /\ Len(docs) = 2
    /\ docs[1] # docs[2]

\* C4: a store loaded from the artifacts of the finished build equals the
\* store the build holds in memory (vectors, documents and metadata, row by
\* row), so index.search has the same possible results on both.
C4_RoundTrip ==
    /\ (bpc = "done" /\ app.st = "ok") =>
          /\ app.index = index
          /\ app.docs = docs
          /\ app.meta = meta
          /\ \A q \in QueryInputs, k \in SLIDER_MIN..Min(SLIDER_MAX, MaxTopK) :
                FaissSearch(app.index, EncodeOne(q), k) = FaissSearch(index, EncodeOne(q), k)
    /\ (bpc = "done" /\ cli.st = "ok") =>
          /\ cli.index = index
          /\ cli.docs = docs

\* C4 witness: a store of two different documents loaded by the app after
\* the build finished.
C4_Witness ==
    /\ bpc = "done"
    /\ app.st = "ok"
    /\ Len(app.docs) >= 2
    /\ app.docs[1] # app.docs[2]
    /\ index.ntotal = Len(app.docs)

\* C5: when a build has failed, ./artifacts holds a complete artifact set or
\* no artifact at all.
C5_AllOrNothing ==
    bpc = "failed" =>
        \/ /\ art.index.kind = "absent"
           /\ art.docs.kind = "absent"
           /\ art.meta.kind = "absent"
        \/ /\ art.index.kind = "faiss"
           /\ art.docs.kind = "json"
           /\ art.meta.kind = "json"

\* C6: a build over the unchanged corpus that rewrites docs.json or
\* meta.json writes what the earlier build wrote: every document keeps its
\* row, whatever the order of the directory listing.
C6_RebuildSameRows ==
    [][ /\ (bpc = "write_docs" /\ bpc' = "write_meta" /\ art.docs.kind = "json")
            => art'.docs = art.docs
        /\ (bpc = "write_meta" /\ bpc' = "done" /\ art.meta.kind = "json")
            => art'.meta = art.meta ]_vars

\* C6 witness: a second build about to rewrite the meta.json of an earlier
\* one, over three files of which the first in order is skipped.
C6_Witness ==
    /\ bpc = "write_meta"
    /\ art.meta.kind = "json"
    /\ Len(paths) = 3
    /\ Len(meta) = 2
    /\ FileAt(paths[1]) \in EmptyFiles

\* C7: over a corpus with no .txt file, or whose .txt files are all empty
\* once stripped, the build never calls the embedder, never writes an
\* artifact file and ends only with the matching SystemExit.
C7_EmptyCorpusFails ==
    (ListedFiles = EmptyFiles) =>
        /\ bEncoded = <<>>
        /\ art.index.kind = "absent" /\ art.docs.kind = "absent" /\ art.meta.kind = "absent"
        /\ bpc \in {"idle", "read", "failed"}
        /\ bpc = "failed" =>
              berr = IF ListedFiles = {}
                     THEN "SystemExit: No .txt files found"
                     ELSE "SystemExit: Documents are empty"

\* C7 witness: a build over two whitespace-only files has failed.
C7_Witness ==
    /\ bpc = "failed"
    /\ Cardinality(ListedFiles) >= 2
    /\ ListedFiles = EmptyFiles
    /\ \E n \in ListedFiles : corpus[n].data # <<>>

\* C8: a successful build reports a document count equal to the number of
\* non-empty files.
C8_ReportsDocumentCount ==
    bpc = "done" => out[1].n = Cardinality(NonEmptyFiles)

\* C9: model.encode is never called with a query that is empty once
\* stripped.
C9_NoEmptyQueryEncoded ==
    \A i \in 1..Len(qEncoded) : Strip(qEncoded[i]) # <<>>

\* C10: a store that was loaded without error has as many documents (and,
\* in the app, metadata records) as the index has rows.
C10_LoadedRowsAgree ==
    /\ app.st = "ok" =>
          app.index.ntotal = Len(app.docs) /\ Len(app.docs) = Len(app.meta)
    /\ cli.st = "ok" => cli.index.ntotal = Len(cli.docs)

\* The store the latest query ran against.
QueriedStore == IF results.by = "app" THEN app ELSE cli

\* C2: the results of a query are in descending score order, results of
\* equal score in ascending row order, and no row is shown twice.
C2_Ranked ==
    (results.k > 0 /\ results.err = "none") =>
        \A i, j \in 1..Len(results.shown) : i < j =>
            /\ results.shown[i].row # results.shown[j].row
            /\ results.by = "app" =>
                  /\ results.shown[i].score >= results.shown[j].score
                  /\ results.shown[i].score = results.shown[j].score
                        => results.shown[i].row < results.shown[j].row

\* C3: a query asking for more results than the store has rows shows
\* exactly one result per row, each a row of the store.
C3_Clamped ==
    (results.k > 0 /\ results.err = "none" /\ results.k > QueriedStore.index.ntotal) =>
        /\ Len(results.shown) = QueriedStore.index.ntotal
        /\ \A i \in 1..Len(results.shown) :
              results.shown[i].row \in 0..(QueriedStore.index.ntotal - 1)
        /\ \A i, j \in 1..Len(results.shown) :
              i # j => results.shown[i].row # results.shown[j].row

\* C11: every preview shown by a query is the document's text stripped, its
\* whitespace runs collapsed to one space, cut to 280 characters, with the
\* ellipsis appended exactly when the collapsed text is longer.
C11_PreviewCollapsed ==
    results.k > 0 =>
        \A i \in 1..Len(results.shown) :
            results.shown[i].text =
                Snippet(PyGet(QueriedStore.docs, results.shown[i].row), SNIPPET_N)

\* What a run with (query, top_k) displays when it is the only one: the
\* (shown, err) pairs line 38 and lines 41-44 can produce from the store.
AloneResults(st, query, top_k) ==
    { [shown |-> AppRender(st, r, 1).shown, err |-> AppRender(st, r, 1).err] :
        r \in FaissSearch(st.index, Encode(<<query>>)[1], top_k) }

\* C12: whatever the interleaving of the sessions' runs, no step of a run
\* changes the cached index, document list or metadata list (nor the
\* artifacts), and a finished run displays what it would display alone.
C12_SearchesIsolated ==
    /\ [](\A s \in Callers : sess[s].pc = "done" =>
             [shown |-> sess[s].shown, err |-> sess[s].err]
                 \in AloneResults(app, sess[s].query, sess[s].k))
    /\ [][sess' # sess => (app' = app /\ art' = art)]_vars

\* Both sessions have finished a run, on different queries, and at least one
\* of the two displays differs from the other.
C12_Witness ==
    /\ sess["s1"].pc = "done" /\ sess["s2"].pc = "done"
    /\ sess["s1"].query # sess["s2"].query
    /\ sess["s1"].k = sess["s2"].k
    /\ sess["s1"].err = "none" /\ sess["s2"].err = "none"
    /\ sess["s1"].shown # sess["s2"].shown

\* The calls of the latest run_query to fn, as positions of the call log.
CallsTo(fn) == { i \in 1..Len(calls) : calls[i].fn = fn }

\* C13: run_query lets no exception out; when the LLM call failed (no key,
\* HTTP 401, another HTTP error, a timeout, a malformed response) the answer
\* is one of the error messages; when the web search failed the stored web
\* results are empty and groq_chat was called after it all the same.
C13_NoFailureEscapes ==
    /\ raised = "none"
    /\ \A i \in CallsTo("groq_chat") :
          calls[i].out # "ok" => answer.pre # "" /\ answer # TypeFirst
    /\ \A i \in CallsTo("ddg_search") :
          calls[i].out = "failed" =>
              /\ web = <<>>
              /\ \E j \in CallsTo("groq_chat") : j > i

\* A run in which the web search failed and then the LLM call timed out.
C13_Witness ==
    /\ asked # <<>>
    /\ \E i \in CallsTo("ddg_search") : calls[i].out = "failed"
    /\ \E j \in CallsTo("groq_chat") : calls[j].out = "Timeout"
    /\ answer.pre # ""
    /\ raised = "none"

\* C14: a run on a question that is empty once stripped sets the answer to
\* "Type a question first.", the web results to [] and calls neither
\* ddg_search nor groq_chat; a run with use_web off does not call ddg_search,
\* stores [] as web results and hands groq_chat no sources.
C14_OnlyRequestedCalls ==
    \A i \in 1..Len(asked) :
        /\ Strip(asked[i].query) = <<>> =>
              answer = TypeFirst /\ web = <<>> /\ calls = <<>>
        /\ ~asked[i].use_web =>
              /\ CallsTo("ddg_search") = {}
              /\ web = <<>>
              /\ \A j \in CallsTo("groq_chat") : calls[j].sources = <<>>

\* A run with use_web off on a real question: groq_chat was called, without
\* sources, and answered.
C14_Witness ==
    /\ asked # <<>>
    /\ ~asked[1].use_web
    /\ Strip(asked[1].query) # <<>>
    /\ \E j \in CallsTo("groq_chat") : calls[j].out = "ok" /\ calls[j].sources = <<>>
    /\ web = <<>>

====
